---- MODULE Spec2Model ----
(***************************************************************************)
(* The swarm investigation loop of src/swarm_agent.py: run_swarm drives    *)
(* the researcher, the analyst and the critic over one shared context      *)
(* until should_terminate says stop, then calls the synthesizer and        *)
(* returns a summary.                                                      *)
(*                                                                         *)
(* The LLM and the search are black boxes.  A reply of the LLM is a parsed *)
(* JSON object: a list of findings, a list of proposed threads and an      *)
(* optional confidence change; or the call (or json.loads, or the          *)
(* arithmetic on a malformed field) raises.  Confidence is a float in the  *)
(* source; here it is counted in hundredths (0.85 is 85) with exact        *)
(* arithmetic, so a sum that is 0.85 in decimals is 85 here whatever the   *)
(* rounding of the binary float makes of it.  The text of a finding is one *)
(* fixed string: only its tag and its place in the list are told apart.    *)
(***************************************************************************)
EXTENDS Integers, Sequences, FiniteSets, TLC

VARIABLES
    ctx,            \* the shared context dict of create_shared_context
    pc,             \* position of run_swarm (and of the agent it is inside)
    contributions,  \* run_swarm's local counter of the current round
    thread,         \* run_researcher_agent's local: the thread being investigated
    should_stop,    \* run_swarm's local, set by the last call of should_terminate
    reason,         \* run_swarm's local, set by the last call of should_terminate
    exc,            \* the agent whose exception left run_swarm, or "none"
    returned,       \* the dicts run_swarm has returned (none, or one)
    state,          \* the SwarmState of the solver/critic graph of 06_swarm.py
    node,           \* the node of that graph that runs next
    prompt,         \* the prompt of the solver's last call of the LLM
    agent,          \* the locals of run_agent of agent.py, and what it returned
    research_agent, \* the locals of run_research_agent of multi_agent.py
    multi,          \* the locals of run_multi_agent, and the calls of the writer
    react,          \* the AgentState of the graph of 02_tools.py, and its next node
    hierarchical,   \* the locals of run_hierarchical_system, and the functions it called
    router,         \* the RouterState of the graph of 04_hierarchical.py, and its nodes
    parallel        \* the ParallelState of the graph of 05_parallel.py, and its nodes

\* the variables of each program
swarm == <<ctx, pc, contributions, thread, should_stop, reason, exc, returned>>
graph == <<state, node, prompt>>

single == <<agent>>
pipeline == <<research_agent, multi>>
tools_graph == <<react>>
hierarchy == <<hierarchical>>
router_graph == <<router>>
parallel_graph == <<parallel>>

vars == <<swarm, graph, single, pipeline, tools_graph, hierarchy, router_graph, parallel_graph>>

\* what the steps of one program leave alone: the variables of the others
outside_swarm == <<graph, single, pipeline, tools_graph, hierarchy, router_graph, parallel_graph>>
outside_graph == <<swarm, single, pipeline, tools_graph, hierarchy, router_graph, parallel_graph>>
outside_single == <<swarm, graph, pipeline, tools_graph, hierarchy, router_graph, parallel_graph>>
outside_pipeline == <<swarm, graph, single, tools_graph, hierarchy, router_graph, parallel_graph>>
outside_tools_graph == <<swarm, graph, single, pipeline, hierarchy, router_graph, parallel_graph>>
outside_hierarchy == <<swarm, graph, single, pipeline, tools_graph, router_graph, parallel_graph>>
outside_router_graph == <<swarm, graph, single, pipeline, tools_graph, hierarchy, parallel_graph>>
outside_parallel_graph == <<swarm, graph, single, pipeline, tools_graph, hierarchy, router_graph>>

----------------------------------------------------------------------------
(* Program constants *)

MaxIterations == 10          \* "max_iterations": 10
ConfidenceThreshold == 85    \* confidence >= 0.85
MinFindings == 3             \* len(findings) > 3
StuckNudge == 10             \* ctx["confidence"] += 0.1
DefaultBoost == 5            \* result.get("confidence_boost", 0.05)
DefaultAdjustment == 0       \* result.get("confidence_adjustment", 0)
AnalystNeeds == 2            \* len(findings) < 2
CriticNeeds == 3             \* len(findings) < 3

(* Bounds of the model *)

MaxFindings == 4             \* replies are drawn so that len(findings) stays within it
MaxReplyFindings == 2        \* longest list of findings in one reply
MaxReplyThreads == 2         \* longest list of proposed threads in one reply
MaxDebt == 10                \* replies are drawn so that confidence stays >= -MaxDebt

----------------------------------------------------------------------------
(* The inputs: the task and what the LLM may reply *)

Task == "task"

Verify(claim) == "Verify: " \o claim

\* what a reply may name as a new thread (researcher, analyst) ...
ThreadTexts == {"q", Verify("q")}
\* ... and what the critic may name as a claim that needs verification
ClaimTexts == {"q"}
FindingTexts == {"f"}
\* the confidence changes a reply may carry, in hundredths
ConfDeltas == {-10, 30}

SeqsUpTo(S, n) == UNION {[1..k -> S] : k \in 0..n}

\* the parsed JSON objects: the confidence key may be missing
Replies(texts) ==
    LET base == [findings : SeqsUpTo(FindingTexts, MaxReplyFindings),
                 threads  : SeqsUpTo(texts, MaxReplyThreads)]
    IN  base \cup {[findings |-> b.findings, threads |-> b.threads, delta |-> d] :
                      b \in base, d \in ConfDeltas}

\* result.get(key, default) on the confidence key
GetDelta(r, default) == IF "delta" \in DOMAIN r THEN r.delta ELSE default

----------------------------------------------------------------------------
(* Helpers on lists *)

Range(s) == {s[i] : i \in 1..Len(s)}

Count(x, s) == Cardinality({i \in 1..Len(s) : s[i] = x})

\* list.remove(x): drops the first occurrence
Remove(s, x) ==
    IF x \notin Range(s) THEN s
    ELSE LET i == CHOOSE j \in 1..Len(s) : s[j] = x /\ \A k \in 1..(j-1) : s[k] # x
         IN  SubSeq(s, 1, i-1) \o SubSeq(s, i+1, Len(s))

Max(a, b) == IF a >= b THEN a ELSE b

\* f"{x:.2f}" of a non-negative number of hundredths
Fmt2f(c) == ToString(c \div 100) \o "." \o ToString((c % 100) \div 10) \o ToString(c % 10)

----------------------------------------------------------------------------
(* The shared context and the pure parts of the agents *)

\* Mutation of create_shared_context: the counter starts at 1
create_shared_context_from_one(task) ==
    [task            |-> task,
     findings        |-> <<>>,
     open_threads    |-> <<task>>,
     investigated    |-> <<>>,
     iteration       |-> 1,
     max_iterations  |-> MaxIterations,
     confidence      |-> 0,
     agents_last_round |-> <<>>]

\* Mutation of create_shared_context: the task is not put in open_threads
create_shared_context_no_thread(task) ==
    [task            |-> task,
     findings        |-> <<>>,
     open_threads    |-> <<>>,
     investigated    |-> <<>>,
     iteration       |-> 0,
     max_iterations  |-> MaxIterations,
     confidence      |-> 0,
     agents_last_round |-> <<>>]

create_shared_context(task) ==
    [task            |-> task,
     findings        |-> <<>>,
     open_threads    |-> <<task>>,
     investigated    |-> <<>>,
     iteration       |-> 0,
     max_iterations  |-> MaxIterations,
     confidence      |-> 0,
     agents_last_round |-> <<>>]

\* Mutation of AppendFindings: the new entries are put in front
AppendFindingsInFront(findings, tag, texts) ==
    [i \in 1..Len(texts) |-> tag \o texts[i]] \o findings

\* for x in texts: findings.append(f"{tag}{x}")
AppendFindings(findings, tag, texts) ==
    findings \o [i \in 1..Len(texts) |-> tag \o texts[i]]

\* Mutation of AddThread: the test against investigated is forgotten
AddThreadNoInvestigatedTest(open, investigated, t) ==
    IF t \notin Range(open) THEN Append(open, t) ELSE open

\* Mutation of AddThread: the test against open_threads is forgotten
AddThreadNoOpenTest(open, investigated, t) ==
    IF t \notin Range(investigated) THEN Append(open, t) ELSE open

\* if t not in investigated and t not in open_threads: open_threads.append(t)
AddThread(open, investigated, t) ==
    IF t \notin Range(investigated) /\ t \notin Range(open) THEN Append(open, t) ELSE open

\* the loop over the proposed threads, in the order of the reply
RECURSIVE AddThreads(_, _, _)
AddThreads(open, investigated, props) ==
    IF props = <<>> THEN open
    ELSE AddThreads(AddThread(open, investigated, Head(props)), investigated, Tail(props))

\* the critic proposes f"Verify: {claim}" for every claim of needs_verification
VerificationThreads(claims) == [i \in 1..Len(claims) |-> Verify(claims[i])]

\* Mutation of should_terminate: > for >= in the first condition
should_terminate_off_by_one(c) ==
    IF c.iteration > c.max_iterations
    THEN <<TRUE, "Max iterations reached">>
    ELSE IF c.confidence >= ConfidenceThreshold
    THEN <<TRUE, "Confidence threshold reached (" \o Fmt2f(c.confidence) \o ")">>
    ELSE IF c.open_threads = <<>> /\ Len(c.findings) > MinFindings
    THEN <<TRUE, "All threads investigated">>
    ELSE <<FALSE, "">>

\* Mutation of should_terminate: the confidence test moved in front of the safety net
should_terminate_confidence_first(c) ==
    IF c.confidence >= ConfidenceThreshold
    THEN <<TRUE, "Confidence threshold reached (" \o Fmt2f(c.confidence) \o ")">>
    ELSE IF c.iteration >= c.max_iterations
    THEN <<TRUE, "Max iterations reached">>
    ELSE IF c.open_threads = <<>> /\ Len(c.findings) > MinFindings
    THEN <<TRUE, "All threads investigated">>
    ELSE <<FALSE, "">>

should_terminate(c) ==
    IF c.iteration >= c.max_iterations
    THEN <<TRUE, "Max iterations reached">>
    ELSE IF c.confidence >= ConfidenceThreshold
    THEN <<TRUE, "Confidence threshold reached (" \o Fmt2f(c.confidence) \o ")">>
    ELSE IF c.open_threads = <<>> /\ Len(c.findings) > MinFindings
    THEN <<TRUE, "All threads investigated">>
    ELSE <<FALSE, "">>

\* the replies that keep the findings and the confidence within the model's bounds
Fits(r, default) ==
    /\ Len(ctx.findings) + Len(r.findings) <= MaxFindings
    /\ ctx.confidence + GetDelta(r, default) >= -MaxDebt

----------------------------------------------------------------------------
(* the two programs before their first step *)

Problem == "problem"

\* the state handed to app.invoke
InitialState ==
    [ problem     |-> Problem,
      solution    |-> "",
      feedback    |-> "",
      iteration   |-> 0,
      is_complete |-> FALSE,
      history     |-> <<>> ]

\* no prompt has been sent yet
NoPrompt == [ branch |-> "none" ]

\* run_agent(user_message) up to its while loop: the two opening messages
UserMessage == "question"

LoopStart(system_prompt, user_content) ==
    [ messages  |-> << [role |-> "system", content |-> system_prompt],
                       [role |-> "user", content |-> user_content] >>,
      iteration |-> 0,
      pc        |-> "while",
      todo      |-> <<>>,
      returned  |-> <<>> ]

\* run_multi_agent(task) before it calls the research agent
Topic == "topic"

MultiStart ==
    [ pc            |-> "research",
      research      |-> "",
      final_content |-> "",
      writer_calls  |-> <<>>,
      returned      |-> <<>> ]

\* app.invoke({"messages": [HumanMessage(content=query)]})
HumanMessage(content) == [role |-> "human", content |-> content]
ReactStart == [messages |-> <<HumanMessage(UserMessage)>>, node |-> "agent", calls |-> 0]

\* run_hierarchical_system(query, verbose) before its first statement
Query == "query"
HierarchicalStart ==
    [ pc            |-> "call",
      verbose       |-> TRUE,
      routing       |-> <<>>,
      department    |-> <<>>,
      specialist_fn |-> "",
      calls         |-> <<>>,
      exc           |-> "none",
      returned      |-> <<>> ]

\* app.invoke({"query": query, "route": "", "response": ""})
RouterStart ==
    [ state |-> [query |-> Query, route |-> "", response |-> ""],
      node  |-> "START",
      calls |-> <<>> ]

\* app.invoke({"topic": topic, "perspectives": [], "synthesis": ""})
Analysts == {"optimist", "pessimist", "realist", "innovator"}
ParallelStart ==
    [ state   |-> [topic |-> Topic, perspectives |-> <<>>, synthesis |-> ""],
      node    |-> [a \in Analysts |-> "waiting"],
      seen    |-> [a \in Analysts |-> <<>>],
      prompt  |-> [a \in Analysts |-> ""],
      writes  |-> <<>>,
      step    |-> "START",
      read    |-> <<>> ]

(* run_swarm *)

Init ==
    /\ ctx = create_shared_context(Task)
    /\ pc = "loop"
    /\ contributions = 0
    /\ thread = ""
    /\ should_stop = FALSE
    /\ reason = ""
    /\ exc = "none"
    /\ returned = {}
    /\ state = InitialState
    /\ node = "START"
    /\ prompt = NoPrompt
    /\ agent = LoopStart("SYSTEM_PROMPT", UserMessage)
    /\ research_agent = LoopStart("RESEARCH_AGENT_PROMPT",
                                  "Research this topic thoroughly: " \o Topic)
    /\ multi = MultiStart
    /\ react = ReactStart
    /\ hierarchical = HierarchicalStart
    /\ router = RouterStart
    /\ parallel = ParallelStart

\* while True: ctx["iteration"] += 1
SwarmLoop ==
    /\ pc = "loop"
    /\ ctx' = [ctx EXCEPT !.iteration = @ + 1]
    /\ pc' = "check"
    /\ UNCHANGED <<contributions, thread, should_stop, reason, exc, returned>>
    /\ UNCHANGED outside_swarm

\* Mutation of CheckTermination: the break is lost, the round runs anyway
CheckTerminationNoBreak ==
    /\ pc = "check"
    /\ LET st == should_terminate(ctx)
       IN  /\ should_stop' = st[1]
           /\ reason' = st[2]
    /\ pc' = "Researcher"
    /\ contributions' = 0
    /\ UNCHANGED <<ctx, thread, exc, returned>>
    /\ UNCHANGED outside_swarm

\* Mutation of CheckTermination: the counter is incremented here, on continue
CheckTerminationIncrements ==
    /\ pc = "check"
    /\ LET st == should_terminate(ctx)
       IN  /\ should_stop' = st[1]
           /\ reason' = st[2]
           /\ IF st[1]
              THEN pc' = "synth" /\ UNCHANGED <<ctx, contributions>>
              ELSE /\ pc' = "Researcher"
                   /\ contributions' = 0
                   /\ ctx' = [ctx EXCEPT !.iteration = @ + 1]
    /\ UNCHANGED <<thread, exc, returned>>
    /\ UNCHANGED outside_swarm

\* should_stop, reason = should_terminate(ctx); break, or start the round
CheckTermination ==
    /\ pc = "check"
    /\ LET st == should_terminate(ctx)
       IN  /\ should_stop' = st[1]
           /\ reason' = st[2]
           /\ IF st[1]
              THEN pc' = "synth" /\ UNCHANGED contributions
              ELSE pc' = "Researcher" /\ contributions' = 0
    /\ UNCHANGED <<ctx, thread, exc, returned>>
    /\ UNCHANGED outside_swarm

\* Mutation of ResearcherSkip: the call still adds the default boost
ResearcherSkipBoosts ==
    /\ pc = "Researcher"
    /\ ctx.open_threads = <<>>
    /\ ctx' = [ctx EXCEPT !.confidence = @ + DefaultBoost]
    /\ pc' = "Analyst"
    /\ UNCHANGED <<contributions, thread, should_stop, reason, exc, returned>>
    /\ UNCHANGED outside_swarm

\* run_researcher_agent with no open thread: {"contributed": False}
ResearcherSkip ==
    /\ pc = "Researcher"
    /\ ctx.open_threads = <<>>
    /\ pc' = "Analyst"
    /\ UNCHANGED <<ctx, contributions, thread, should_stop, reason, exc, returned>>
    /\ UNCHANGED outside_swarm

\* Mutation of ResearcherMerge: the newest thread is picked, not the oldest
ResearcherMergePicksLast ==
    /\ pc = "Researcher"
    /\ ctx.open_threads # <<>>
    /\ \E r \in Replies(ThreadTexts) :
          /\ Fits(r, DefaultBoost)
          /\ ctx' = [ctx EXCEPT
                !.findings = AppendFindings(@, "[RESEARCHER] ", r.findings),
                !.open_threads = AddThreads(@, ctx.investigated, r.threads),
                !.confidence = @ + GetDelta(r, DefaultBoost)]
    /\ thread' = ctx.open_threads[Len(ctx.open_threads)]
    /\ pc' = "mark_remove"
    /\ UNCHANGED <<contributions, should_stop, reason, exc, returned>>
    /\ UNCHANGED outside_swarm

\* run_researcher_agent: pick the first thread, search, ask, merge the reply
ResearcherMerge ==
    /\ pc = "Researcher"
    /\ ctx.open_threads # <<>>
    /\ \E r \in Replies(ThreadTexts) :
          /\ Fits(r, DefaultBoost)
          /\ ctx' = [ctx EXCEPT
                !.findings = AppendFindings(@, "[RESEARCHER] ", r.findings),
                !.open_threads = AddThreads(@, ctx.investigated, r.threads),
                !.confidence = @ + GetDelta(r, DefaultBoost)]
    /\ thread' = ctx.open_threads[1]
    /\ pc' = "mark_remove"
    /\ UNCHANGED <<contributions, should_stop, reason, exc, returned>>
    /\ UNCHANGED outside_swarm

\* the LLM call, json.loads or the += on a malformed boost raises
ResearcherRaises ==
    /\ pc = "Researcher"
    /\ ctx.open_threads # <<>>
    /\ pc' = "raised"
    /\ exc' = "Researcher"
    /\ UNCHANGED <<ctx, contributions, thread, should_stop, reason, returned>>
    /\ UNCHANGED outside_swarm

\* Mutation of ResearcherRemove: the thread is not taken out of open_threads
ResearcherRemoveForgotten ==
    /\ pc = "mark_remove"
    /\ pc' = "mark_append"
    /\ UNCHANGED <<ctx, contributions, thread, should_stop, reason, exc, returned>>
    /\ UNCHANGED outside_swarm

\* if thread in open_threads: open_threads.remove(thread)
ResearcherRemove ==
    /\ pc = "mark_remove"
    /\ ctx' = [ctx EXCEPT !.open_threads =
                  IF thread \in Range(@) THEN Remove(@, thread) ELSE @]
    /\ pc' = "mark_append"
    /\ UNCHANGED <<contributions, thread, should_stop, reason, exc, returned>>
    /\ UNCHANGED outside_swarm

\* Mutation of ResearcherAppend: the critic is called before the analyst
ResearcherAppendThenCritic ==
    /\ pc = "mark_append"
    /\ ctx' = [ctx EXCEPT !.investigated = Append(@, thread)]
    /\ contributions' = contributions + 1
    /\ thread' = ""
    /\ pc' = "Critic"
    /\ UNCHANGED <<should_stop, reason, exc, returned>>
    /\ UNCHANGED outside_swarm

\* investigated.append(thread); return contributed; contributions += 1
ResearcherAppend ==
    /\ pc = "mark_append"
    /\ ctx' = [ctx EXCEPT !.investigated = Append(@, thread)]
    /\ contributions' = contributions + 1
    /\ thread' = ""
    /\ pc' = "Analyst"
    /\ UNCHANGED <<should_stop, reason, exc, returned>>
    /\ UNCHANGED outside_swarm

\* run_analyst_agent with fewer than 2 findings: {"contributed": False}
AnalystSkip ==
    /\ pc = "Analyst"
    /\ Len(ctx.findings) < AnalystNeeds
    /\ pc' = "Critic"
    /\ UNCHANGED <<ctx, contributions, thread, should_stop, reason, exc, returned>>
    /\ UNCHANGED outside_swarm

\* Mutation of AnalystMerge: the analyst already works on a single finding
AnalystMergeOnOneFinding ==
    /\ pc = "Analyst"
    /\ ~(Len(ctx.findings) < 1)
    /\ \E r \in Replies(ThreadTexts) :
          /\ Fits(r, DefaultBoost)
          /\ ctx' = [ctx EXCEPT
                !.findings = AppendFindings(@, "[ANALYST] Pattern: ", r.findings),
                !.open_threads = AddThreads(@, ctx.investigated, r.threads),
                !.confidence = @ + GetDelta(r, DefaultBoost)]
    /\ contributions' = contributions + 1
    /\ pc' = "Critic"
    /\ UNCHANGED <<thread, should_stop, reason, exc, returned>>
    /\ UNCHANGED outside_swarm

\* run_analyst_agent: patterns become findings, gaps become threads
AnalystMerge ==
    /\ pc = "Analyst"
    /\ ~(Len(ctx.findings) < AnalystNeeds)
    /\ \E r \in Replies(ThreadTexts) :
          /\ Fits(r, DefaultBoost)
          /\ ctx' = [ctx EXCEPT
                !.findings = AppendFindings(@, "[ANALYST] Pattern: ", r.findings),
                !.open_threads = AddThreads(@, ctx.investigated, r.threads),
                !.confidence = @ + GetDelta(r, DefaultBoost)]
    /\ contributions' = contributions + 1
    /\ pc' = "Critic"
    /\ UNCHANGED <<thread, should_stop, reason, exc, returned>>
    /\ UNCHANGED outside_swarm

AnalystRaises ==
    /\ pc = "Analyst"
    /\ ~(Len(ctx.findings) < AnalystNeeds)
    /\ pc' = "raised"
    /\ exc' = "Analyst"
    /\ UNCHANGED <<ctx, contributions, thread, should_stop, reason, returned>>
    /\ UNCHANGED outside_swarm

\* run_critic_agent with fewer than 3 findings: {"contributed": False}
CriticSkip ==
    /\ pc = "Critic"
    /\ Len(ctx.findings) < CriticNeeds
    /\ pc' = "stuck"
    /\ UNCHANGED <<ctx, contributions, thread, should_stop, reason, exc, returned>>
    /\ UNCHANGED outside_swarm

\* run_critic_agent up to confidence += confidence_adjustment
CriticMerge ==
    /\ pc = "Critic"
    /\ ~(Len(ctx.findings) < CriticNeeds)
    /\ \E r \in Replies(ClaimTexts) :
          /\ Fits(r, DefaultAdjustment)
          /\ ctx' = [ctx EXCEPT
                !.findings = AppendFindings(@, "[CRITIC] Challenge: ", r.findings),
                !.open_threads = AddThreads(@, ctx.investigated, VerificationThreads(r.threads)),
                !.confidence = @ + GetDelta(r, DefaultAdjustment)]
    /\ pc' = "clamp"
    /\ UNCHANGED <<contributions, thread, should_stop, reason, exc, returned>>
    /\ UNCHANGED outside_swarm

CriticRaises ==
    /\ pc = "Critic"
    /\ ~(Len(ctx.findings) < CriticNeeds)
    /\ pc' = "raised"
    /\ exc' = "Critic"
    /\ UNCHANGED <<ctx, contributions, thread, should_stop, reason, returned>>
    /\ UNCHANGED outside_swarm

\* confidence = max(0, confidence); return contributed; contributions += 1
CriticClamp ==
    /\ pc = "clamp"
    /\ ctx' = [ctx EXCEPT !.confidence = Max(0, @)]
    /\ contributions' = contributions + 1
    /\ pc' = "stuck"
    /\ UNCHANGED <<thread, should_stop, reason, exc, returned>>
    /\ UNCHANGED outside_swarm

\* Mutation of Stuck: the nudge of an idle round is twice as large
StuckNudgesDouble ==
    /\ pc = "stuck"
    /\ ctx' = [ctx EXCEPT !.confidence = IF contributions = 0 THEN @ + 2 * StuckNudge ELSE @]
    /\ pc' = "loop"
    /\ UNCHANGED <<contributions, thread, should_stop, reason, exc, returned>>
    /\ UNCHANGED outside_swarm

\* Mutation of Stuck: the nudge is applied whatever the round contributed
StuckAlwaysNudges ==
    /\ pc = "stuck"
    /\ ctx' = [ctx EXCEPT !.confidence = @ + StuckNudge]
    /\ pc' = "loop"
    /\ UNCHANGED <<contributions, thread, should_stop, reason, exc, returned>>
    /\ UNCHANGED outside_swarm

\* if contributions == 0: ctx["confidence"] += 0.1
Stuck ==
    /\ pc = "stuck"
    /\ ctx' = [ctx EXCEPT !.confidence = IF contributions = 0 THEN @ + StuckNudge ELSE @]
    /\ pc' = "loop"
    /\ UNCHANGED <<contributions, thread, should_stop, reason, exc, returned>>
    /\ UNCHANGED outside_swarm

\* final_answer = run_synthesizer_agent(ctx); return {...}
Synthesize ==
    /\ pc = "synth"
    /\ returned' = {[task                 |-> ctx.task,
                     iterations           |-> ctx.iteration,
                     total_findings       |-> Len(ctx.findings),
                     threads_investigated |-> Len(ctx.investigated),
                     final_confidence     |-> ctx.confidence,
                     findings             |-> ctx.findings,
                     answer               |-> "answer"]}
    /\ pc' = "done"
    /\ UNCHANGED <<ctx, contributions, thread, should_stop, reason, exc>>
    /\ UNCHANGED outside_swarm

SynthesizerRaises ==
    /\ pc = "synth"
    /\ pc' = "raised"
    /\ exc' = "Synthesizer"
    /\ UNCHANGED <<ctx, contributions, thread, should_stop, reason, returned>>
    /\ UNCHANGED outside_swarm

\* the steps in which every call returns
Returns ==
    \/ SwarmLoop
    \/ CheckTermination
    \/ ResearcherSkip
    \/ ResearcherMerge
    \/ ResearcherRemove
    \/ ResearcherAppend
    \/ AnalystSkip
    \/ AnalystMerge
    \/ CriticSkip
    \/ CriticMerge
    \/ CriticClamp
    \/ Stuck
    \/ Synthesize

\* the steps in which an agent's call raises: nothing in run_swarm catches it
Raises ==
    \/ ResearcherRaises
    \/ AnalystRaises
    \/ CriticRaises
    \/ SynthesizerRaises

Next == Returns \/ Raises

Spec == Init /\ [][Next]_vars

-----------------------------------------------------------------------------
(* The solver/critic graph of 06_swarm.py *)

MAX_ITERATIONS == 3

\* what the LLM may answer: solutions, and verdicts in several spellings
Solutions == {"s1", "s2"}
Feedbacks == {"APPROVED: fine", " approved\n", "NEEDS WORK: x", "NOT APPROVED"}

\* str.startswith
StartsWith(s, prefix) ==
    /\ Len(prefix) <= Len(s)
    /\ SubSeq(s, 1, Len(prefix)) = prefix

\* str.strip: leading and trailing whitespace removed
IsSpace(c) == c \in {" ", "\n", "\t", "\r"}

Strip(s) ==
    LET first == CHOOSE i \in 1..(Len(s) + 1) :
                     /\ \A j \in 1..(i - 1) : IsSpace(SubSeq(s, j, j))
                     /\ i <= Len(s) => ~IsSpace(SubSeq(s, i, i))
        last  == CHOOSE i \in 0..Len(s) :
                     /\ \A j \in (i + 1)..Len(s) : IsSpace(SubSeq(s, j, j))
                     /\ i >= 1 => ~IsSpace(SubSeq(s, i, i))
    IN  SubSeq(s, first, last)

\* str.upper
LowerCase == <<"a", "b", "c", "d", "e", "f", "g", "h", "i", "j", "k", "l", "m",
               "n", "o", "p", "q", "r", "s", "t", "u", "v", "w", "x", "y", "z">>
UpperCase == <<"A", "B", "C", "D", "E", "F", "G", "H", "I", "J", "K", "L", "M",
               "N", "O", "P", "Q", "R", "S", "T", "U", "V", "W", "X", "Y", "Z">>

ToUpper ==
    [c \in {LowerCase[i] : i \in DOMAIN LowerCase} |->
        UpperCase[CHOOSE i \in DOMAIN LowerCase : LowerCase[i] = c]]

UpperChar(c) == IF c \in DOMAIN ToUpper THEN ToUpper[c] ELSE c

\* the first n characters of s in upper case
RECURSIVE UpperUpTo(_, _)
UpperUpTo(s, n) ==
    IF n = 0 THEN ""
    ELSE UpperUpTo(s, n - 1) \o UpperChar(SubSeq(s, n, n))

Upper(s) == UpperUpTo(s, Len(s))

\* a node's returned dict replaces the keys it names
Merge(s, update) ==
    [k \in DOMAIN s |-> IF k \in DOMAIN update THEN update[k] ELSE s[k]]

\* Mutation of SolverBranch: the second call still asks for an initial solution
SolverBranchLate(s) == IF s.iteration <= 1 THEN "initial" ELSE "improve"

\* the prompt branch the solver takes
SolverBranch(s) == IF s.iteration = 0 THEN "initial" ELSE "improve"

\* the prompt the solver builds: the problem alone, or the problem with the
\* current solution and the feedback received
solver_prompt(s) ==
    IF SolverBranch(s) = "initial"
    THEN [ branch |-> "initial", problem |-> s.problem ]
    ELSE [ branch   |-> "improve",
           problem  |-> s.problem,
           solution |-> s.solution,
           feedback |-> s.feedback ]

\* the dict solver_agent returns when the LLM answers new_solution
solver_agent(s, new_solution) ==
    [ solution  |-> new_solution,
      iteration |-> s.iteration + 1,
      history   |-> Append(s.history,
                           "ITERATION " \o ToString(s.iteration + 1)
                               \o " SOLUTION:\n" \o new_solution) ]

\* Mutation of critic_agent: the history is replaced by the critic's entry
critic_agent_restarts_history(s, feedback) ==
    [ feedback    |-> feedback,
      is_complete |-> StartsWith(Upper(Strip(feedback)), "APPROVED"),
      history     |-> << "ITERATION " \o ToString(s.iteration)
                             \o " FEEDBACK:\n" \o feedback >> ]

\* the dict critic_agent returns when the LLM answers feedback
critic_agent(s, feedback) ==
    [ feedback    |-> feedback,
      is_complete |-> StartsWith(Upper(Strip(feedback)), "APPROVED"),
      history     |-> Append(s.history,
                             "ITERATION " \o ToString(s.iteration)
                                 \o " FEEDBACK:\n" \o feedback) ]

\* Mutation of should_continue: the bound is tested with > instead of >=
should_continue_strict(s) ==
    IF s.is_complete THEN "end"
    ELSE IF s.iteration > MAX_ITERATIONS THEN "end"
    ELSE "solver"

\* Mutation of should_continue: the verdict of the critic is not looked at
should_continue_ignores_verdict(s) ==
    IF s.iteration >= MAX_ITERATIONS THEN "end"
    ELSE "solver"

\* Mutation of should_continue: the bound on the iterations is not tested
should_continue_unbounded(s) ==
    IF s.is_complete THEN "end"
    ELSE "solver"

should_continue(s) ==
    IF s.is_complete THEN "end"
    ELSE IF s.iteration >= MAX_ITERATIONS THEN "end"
    ELSE "solver"

\* graph.add_edge(START, "solver")
Start ==
    /\ node = "START"
    /\ node' = "solver"
    /\ UNCHANGED <<state, prompt>>
    /\ UNCHANGED outside_graph

\* Mutation of SolverNode: the solver forgets to count its step
SolverNodeNoCount ==
    /\ node = "solver"
    /\ \E new_solution \in Solutions :
           state' = [Merge(state, solver_agent(state, new_solution))
                         EXCEPT !.iteration = state.iteration]
    /\ node' = "critic"
    /\ prompt' = solver_prompt(state)
    /\ UNCHANGED outside_graph

\* the solver node, then graph.add_edge("solver", "critic")
SolverNode ==
    /\ node = "solver"
    /\ \E new_solution \in Solutions :
           state' = Merge(state, solver_agent(state, new_solution))
    /\ node' = "critic"
    /\ prompt' = solver_prompt(state)
    /\ UNCHANGED outside_graph

\* the critic node; its conditional edge is taken next
CriticNode ==
    /\ node = "critic"
    /\ \E feedback \in Feedbacks :
           state' = Merge(state, critic_agent(state, feedback))
    /\ node' = "route"
    /\ UNCHANGED prompt
    /\ UNCHANGED outside_graph

\* the conditional edge after the critic: {"solver": "solver", "end": END}
Route ==
    /\ node = "route"
    /\ node' = IF should_continue(state) = "end" THEN "END" ELSE "solver"
    /\ UNCHANGED <<state, prompt>>
    /\ UNCHANGED outside_graph

\* llm.invoke raises in a node: nothing in the graph catches it
NodeRaises ==
    /\ node \in {"solver", "critic"}
    /\ node' = "raised"
    /\ UNCHANGED <<state, prompt>>
    /\ UNCHANGED outside_graph

GraphNext ==
    \/ Start
    \/ SolverNode
    \/ CriticNode
    \/ Route
    \/ NodeRaises

\* one invocation of the graph
GraphSpec == Init /\ [][GraphNext]_vars

\* app.invoke runs the next node as long as there is one
FairGraphSpec == GraphSpec /\ WF_vars(GraphNext)

\* one invocation of either program
SwarmIdle == pc = "loop" /\ ctx.iteration = 0
GraphIdle == node = "START"

EitherNext ==
    \/ GraphIdle /\ Next
    \/ SwarmIdle /\ GraphNext

EitherSpec == Init /\ [][EitherNext]_vars

----------------------------------------------------------------------------
(* The tool loop of run_agent (agent.py) and of run_research_agent          *)
(* (multi_agent.py): the same loop with another bound, other tools and      *)
(* another way to meet a tool name it does not know.  The record of a loop  *)
(* holds its locals: messages, iteration, the position pc ("while", "for",  *)
(* "done", "raised"), the tool calls the for loop has still to go through   *)
(* and the value returned.                                                  *)

AgentMaxIterations == 10
AgentGaveUp == "I apologize, but I wasn't able to complete this task within the allowed steps."
AgentTools == {"search_web", "read_file", "calculate"}

\* what the LLM may respond: a text, or a request for one or more tool calls
Answer(text) == [content |-> text, tool_calls |-> <<>>]
Request(calls) == [content |-> "", tool_calls |-> calls]
ToolCall(id, name) == [id |-> id, name |-> name]

AgentResponses ==
    { Answer("answer"),
      Request(<<ToolCall("call_1", "calculate")>>),
      Request(<<ToolCall("call_1", "calculate"), ToolCall("call_2", "get_weather")>>) }

\* messages.append(assistant_message)
AssistantMessage(response) ==
    [role |-> "assistant", content |-> response.content, tool_calls |-> response.tool_calls]

\* the responses of the LLM that a loop has kept in its messages
Requests(loop) ==
    Cardinality({i \in DOMAIN loop.messages : loop.messages[i].role = "assistant"})

\* {"role": "tool", "tool_call_id": tool_call.id, "content": result}
ToolMessage(call, result) ==
    [role |-> "tool", tool_call_id |-> call.id, content |-> result]

\* TOOL_FUNCTIONS[tool_name](**tool_args), or the error text of run_agent
ToolResult(call, known) ==
    IF call.name \in known
    THEN "result of " \o call.name
    ELSE "Error: Unknown tool '" \o call.name \o "'"

\* while iteration < max_iterations is false: the fixed string is returned
LoopGivesUp(loop, text) ==
    [loop EXCEPT !.pc = "done", !.returned = <<text>>]

\* Mutation of LoopCalls: an answer is not returned, the LLM is asked again
LoopCallsAgain(loop, response) ==
    IF response.tool_calls # <<>>
    THEN [loop EXCEPT !.iteration = @ + 1,
                      !.messages = Append(@, AssistantMessage(response)),
                      !.todo = response.tool_calls,
                      !.pc = "for"]
    ELSE [loop EXCEPT !.iteration = @ + 1]

\* iteration += 1; the call of the LLM; the branch on assistant_message.tool_calls
LoopCalls(loop, response) ==
    IF response.tool_calls # <<>>
    THEN [loop EXCEPT !.iteration = @ + 1,
                      !.messages = Append(@, AssistantMessage(response)),
                      !.todo = response.tool_calls,
                      !.pc = "for"]
    ELSE [loop EXCEPT !.iteration = @ + 1,
                      !.returned = <<response.content>>,
                      !.pc = "done"]

\* Mutation of LoopRunsTool: an unknown tool gets no tool message
LoopRunsToolSkipsUnknown(loop, known) ==
    [loop EXCEPT !.messages = IF Head(loop.todo).name \in known
                              THEN Append(@, ToolMessage(Head(loop.todo),
                                                         ToolResult(Head(loop.todo), known)))
                              ELSE @,
                 !.todo = Tail(@),
                 !.pc = IF Tail(loop.todo) = <<>> THEN "while" ELSE "for"]

\* one pass of for tool_call in assistant_message.tool_calls
LoopRunsTool(loop, known) ==
    [loop EXCEPT !.messages = Append(@, ToolMessage(Head(loop.todo),
                                                    ToolResult(Head(loop.todo), known))),
                 !.todo = Tail(@),
                 !.pc = IF Tail(loop.todo) = <<>> THEN "while" ELSE "for"]

(* run_agent *)

AgentGivesUp ==
    /\ agent.pc = "while"
    /\ ~(agent.iteration < AgentMaxIterations)
    /\ agent' = LoopGivesUp(agent, AgentGaveUp)
    /\ UNCHANGED outside_single

AgentCalls ==
    /\ agent.pc = "while"
    /\ agent.iteration < AgentMaxIterations
    /\ \E response \in AgentResponses : agent' = LoopCalls(agent, response)
    /\ UNCHANGED outside_single

AgentRunsTool ==
    /\ agent.pc = "for"
    /\ agent' = LoopRunsTool(agent, AgentTools)
    /\ UNCHANGED outside_single

\* client.chat.completions.create raises: run_agent has no try/except
AgentCallRaises ==
    /\ agent.pc = "while"
    /\ agent.iteration < AgentMaxIterations
    /\ agent' = [agent EXCEPT !.iteration = @ + 1, !.pc = "raised"]
    /\ UNCHANGED outside_single

\* json.loads of the arguments, or the tool function, raises
AgentToolRaises ==
    /\ agent.pc = "for"
    /\ Head(agent.todo).name \in AgentTools
    /\ agent' = [agent EXCEPT !.pc = "raised"]
    /\ UNCHANGED outside_single

AgentNext ==
    \/ AgentCalls
    \/ AgentRunsTool
    \/ AgentGivesUp
    \/ AgentCallRaises
    \/ AgentToolRaises

\* one invocation of run_agent
AgentSpec == Init /\ [][AgentNext]_vars

----------------------------------------------------------------------------
(* The pipeline of multi_agent.py: run_multi_agent calls the research agent, *)
(* then the writer agent on what the research agent returned.               *)

ResearchMaxIterations == 8
ResearchIncomplete == "Research incomplete - max iterations reached."
ResearchTools == {"search_web"}

ResearchResponses ==
    { Answer("research"),
      Request(<<ToolCall("call_1", "search_web")>>),
      Request(<<ToolCall("call_1", "search_web"), ToolCall("call_2", "search_web")>>),
      Request(<<ToolCall("call_1", "search_web"), ToolCall("call_2", "calculate")>>) }

\* what the LLM may write for the writer agent
Contents == {"post"}

(* run_research_agent *)

ResearchGivesUp ==
    /\ multi.pc = "research"
    /\ research_agent.pc = "while"
    /\ ~(research_agent.iteration < ResearchMaxIterations)
    /\ research_agent' = LoopGivesUp(research_agent, ResearchIncomplete)
    /\ UNCHANGED multi
    /\ UNCHANGED outside_pipeline

ResearchCalls ==
    /\ multi.pc = "research"
    /\ research_agent.pc = "while"
    /\ research_agent.iteration < ResearchMaxIterations
    /\ \E response \in ResearchResponses :
           research_agent' = LoopCalls(research_agent, response)
    /\ UNCHANGED multi
    /\ UNCHANGED outside_pipeline

\* result = tool_functions[tool_name](**tool_args): the tool is known
ResearchRunsTool ==
    /\ multi.pc = "research"
    /\ research_agent.pc = "for"
    /\ Head(research_agent.todo).name \in ResearchTools
    /\ research_agent' = LoopRunsTool(research_agent, ResearchTools)
    /\ UNCHANGED multi
    /\ UNCHANGED outside_pipeline

\* client.chat.completions.create raises, and run_multi_agent with it
ResearchCallRaises ==
    /\ multi.pc = "research"
    /\ research_agent.pc = "while"
    /\ research_agent.iteration < ResearchMaxIterations
    /\ research_agent' = [research_agent EXCEPT !.iteration = @ + 1, !.pc = "raised"]
    /\ multi' = [multi EXCEPT !.pc = "raised"]
    /\ UNCHANGED outside_pipeline

\* json.loads or the search raises, or tool_functions has no such key
ResearchToolRaises ==
    /\ multi.pc = "research"
    /\ research_agent.pc = "for"
    /\ research_agent' = [research_agent EXCEPT !.pc = "raised"]
    /\ multi' = [multi EXCEPT !.pc = "raised"]
    /\ UNCHANGED outside_pipeline

(* run_multi_agent *)

\* Mutation of ResearchReturns: incomplete research is returned unwritten
ResearchReturnsPastWriter ==
    /\ multi.pc = "research"
    /\ research_agent.pc = "done"
    /\ multi' = [multi EXCEPT
                    !.research = research_agent.returned[1],
                    !.pc = IF research_agent.returned[1] = ResearchIncomplete
                           THEN "return" ELSE "writer"]
    /\ UNCHANGED research_agent
    /\ UNCHANGED outside_pipeline

\* research = run_research_agent(task, verbose=verbose)
ResearchReturns ==
    /\ multi.pc = "research"
    /\ research_agent.pc = "done"
    /\ multi' = [multi EXCEPT !.research = research_agent.returned[1],
                              !.pc = "writer"]
    /\ UNCHANGED research_agent
    /\ UNCHANGED outside_pipeline

\* final_content = run_writer_agent(research, "blog post", verbose=verbose)
WriterWrites ==
    /\ multi.pc = "writer"
    /\ \E content \in Contents :
           multi' = [multi EXCEPT !.writer_calls = Append(@, multi.research),
                                  !.final_content = content,
                                  !.pc = "return"]
    /\ UNCHANGED research_agent
    /\ UNCHANGED outside_pipeline

\* the writer's call of the LLM raises
WriterRaises ==
    /\ multi.pc = "writer"
    /\ multi' = [multi EXCEPT !.writer_calls = Append(@, multi.research),
                              !.pc = "raised"]
    /\ UNCHANGED research_agent
    /\ UNCHANGED outside_pipeline

\* return {"research": research, "final_content": final_content}
MultiReturns ==
    /\ multi.pc = "return"
    /\ multi' = [multi EXCEPT
                    !.returned = <<[research      |-> multi.research,
                                    final_content |-> multi.final_content]>>,
                    !.pc = "done"]
    /\ UNCHANGED research_agent
    /\ UNCHANGED outside_pipeline

PipelineNext ==
    \/ ResearchCalls
    \/ ResearchRunsTool
    \/ ResearchGivesUp
    \/ ResearchCallRaises
    \/ ResearchToolRaises
    \/ ResearchReturns
    \/ WriterWrites
    \/ WriterRaises
    \/ MultiReturns

\* one invocation of run_multi_agent
PipelineSpec == Init /\ [][PipelineNext]_vars

\* one invocation of run_agent, or one of run_multi_agent
AgentIdle == agent.pc = "while" /\ agent.iteration = 0
PipelineIdle == research_agent.pc = "while" /\ research_agent.iteration = 0

ToolLoopsNext ==
    \/ PipelineIdle /\ AgentNext
    \/ AgentIdle /\ PipelineNext

ToolLoopsSpec == Init /\ [][ToolLoopsNext]_vars

----------------------------------------------------------------------------
(* The ReAct graph of 02_tools.py: START -> agent, a conditional edge from  *)
(* agent to tools or END, and tools -> agent.  The graph states no bound on *)
(* its cycle; MaxGraphCalls cuts the exploration off.                       *)

MaxGraphCalls == 11
GraphTools == {"get_weather", "get_time", "calculate"}

\* the AIMessage llm_with_tools.invoke returns
AIMessage(response) ==
    [role |-> "ai", content |-> response.content, tool_calls |-> response.tool_calls]

\* the messages ToolNode returns: one ToolMessage for each tool call of the
\* last message, in the order of the calls
ToolMessages(calls) ==
    [i \in 1..Len(calls) |-> ToolMessage(calls[i], ToolResult(calls[i], GraphTools))]

\* should_continue of 02_tools.py
tools_should_continue(s) ==
    LET last_message == s.messages[Len(s.messages)]
    IN  IF last_message.tool_calls # <<>> THEN "tools" ELSE "END"

\* agent_node: the LLM is called on the messages and its response appended
\* (add_messages), then the conditional edge is taken
agent_node(response) ==
    /\ react.node = "agent"
    /\ react.calls < MaxGraphCalls
    /\ LET called == [react EXCEPT !.messages = Append(@, AIMessage(response)),
                                   !.calls = @ + 1]
       IN  react' = [called EXCEPT !.node = tools_should_continue(called)]
    /\ UNCHANGED outside_tools_graph

\* llm_with_tools.invoke raises: nothing in the graph catches it
agent_node_raises ==
    /\ react.node = "agent"
    /\ react.calls < MaxGraphCalls
    /\ react' = [react EXCEPT !.calls = @ + 1, !.node = "raised"]
    /\ UNCHANGED outside_tools_graph

\* tool_node, then the edge tools -> agent
tool_node ==
    /\ react.node = "tools"
    /\ react' = [react EXCEPT
                    !.messages = @ \o ToolMessages(react.messages[Len(react.messages)].tool_calls),
                    !.node = "agent"]
    /\ UNCHANGED outside_tools_graph

(* run_agent and the graph on the same responses: run_agent runs first, then *)
(* the graph is given, call by call, the responses run_agent was given.      *)

\* the k-th response of the LLM that run_agent kept in its messages
KeptResponse(k) ==
    LET i == CHOOSE i \in DOMAIN agent.messages :
                 /\ agent.messages[i].role = "assistant"
                 /\ Cardinality({j \in 1..i : agent.messages[j].role = "assistant"}) = k
    IN  agent.messages[i]

\* response is what run_agent was given at the call the graph makes next;
\* past run_agent's last call the sequence goes on with any response
SameResponse(response) ==
    LET k == react.calls + 1
    IN  IF k <= Requests(agent)
        THEN AssistantMessage(response) = KeptResponse(k)
        ELSE IF k <= agent.iteration
             THEN response = Answer(agent.returned[1])
             ELSE TRUE

ReactIdle == react = ReactStart

SameResponsesNext ==
    \/ ReactIdle /\ AgentNext
    \/ /\ agent.pc = "done"
       /\ \/ \E response \in AgentResponses : SameResponse(response) /\ agent_node(response)
          \/ react.calls >= agent.iteration /\ agent_node_raises
          \/ tool_node

SameResponsesSpec == Init /\ [][SameResponsesNext]_vars

----------------------------------------------------------------------------
(* The router and its specialists: run_hierarchical_system of               *)
(* hierarchical_agent.py, and the router graph of 04_hierarchical.py.       *)
(* run_router_agent returns what json.loads made of the LLM's reply: a dict *)
(* whose "department", if it has one, is any JSON value.                    *)

JsonString(text) == [type |-> "string", value |-> text]
JsonNull == [type |-> "null", value |-> ""]
JsonArray(text) == [type |-> "array", value |-> text]

Departments ==
    { JsonString("BILLING"), JsonString("TECHNICAL"), JsonString("SALES"),
      JsonString("GENERAL"), JsonString("billing"), JsonString("LEGAL"),
      JsonNull, JsonArray("BILLING") }

\* the dicts json.loads may return: department is <<d>>, or <<>> when the key
\* is absent; others tells whether "confidence" and "reasoning" are present
Routings ==
    [department : {<<d>> : d \in Departments} \cup {<<>>}, others : BOOLEAN]

SPECIALISTS ==
    [d \in {"BILLING", "TECHNICAL", "SALES", "GENERAL"} |->
        CASE d = "BILLING"   -> "run_billing_agent"
          [] d = "TECHNICAL" -> "run_technical_agent"
          [] d = "SALES"     -> "run_sales_agent"
          [] d = "GENERAL"   -> "run_general_agent"]

SpecialistResponses == {"response", "other response"}

\* a Python value that can be a dict key: a list cannot
Hashable(d) == d.type # "array"

\* routing["department"] is there and SPECIALISTS.get takes it
Dispatchable(routing) ==
    IF routing.department = <<>> THEN FALSE ELSE Hashable(routing.department[1])

\* SPECIALISTS.get(department, run_general_agent), for a hashable department
SpecialistsGet(d, default) ==
    IF d.type = "string" /\ d.value \in DOMAIN SPECIALISTS
    THEN SPECIALISTS[d.value]
    ELSE default

\* the callers of run_hierarchical_system pass verbose or leave it True
RunHierarchicalSystem ==
    /\ hierarchical.pc = "call"
    /\ \E verbose \in BOOLEAN :
           hierarchical' = [hierarchical EXCEPT !.verbose = verbose, !.pc = "router"]
    /\ UNCHANGED outside_hierarchy

\* routing = run_router_agent(query, verbose=verbose): with verbose its prints
\* index the three keys, so it returns only a dict that has them
RouterAgentReturns ==
    /\ hierarchical.pc = "router"
    /\ \E result \in Routings :
           /\ hierarchical.verbose => result.department # <<>> /\ result.others
           /\ hierarchical' = [hierarchical EXCEPT
                                  !.calls = Append(@, "run_router_agent"),
                                  !.routing = <<result>>,
                                  !.pc = "dispatch"]
    /\ UNCHANGED outside_hierarchy

\* the call of the LLM, json.loads or a print of run_router_agent raises
RouterAgentRaises ==
    /\ hierarchical.pc = "router"
    /\ hierarchical' = [hierarchical EXCEPT
                           !.calls = Append(@, "run_router_agent"),
                           !.exc = "run_router_agent",
                           !.pc = "raised"]
    /\ UNCHANGED outside_hierarchy

\* department = routing["department"]
\* specialist_fn = SPECIALISTS.get(department, run_general_agent)
Dispatch ==
    /\ hierarchical.pc = "dispatch"
    /\ LET routing == hierarchical.routing[1]
       IN  /\ Dispatchable(routing)
           /\ hierarchical' = [hierarchical EXCEPT
                                  !.department = routing.department,
                                  !.specialist_fn = SpecialistsGet(routing.department[1],
                                                                   "run_general_agent"),
                                  !.pc = "specialist"]
    /\ UNCHANGED outside_hierarchy

\* routing["department"] raises KeyError when the key is absent;
\* SPECIALISTS.get raises TypeError when department is a list
DispatchRaises ==
    /\ hierarchical.pc = "dispatch"
    /\ LET routing == hierarchical.routing[1]
       IN  /\ ~Dispatchable(routing)
           /\ hierarchical' = [hierarchical EXCEPT
                                  !.department = routing.department,
                                  !.exc = "run_hierarchical_system",
                                  !.pc = "raised"]
    /\ UNCHANGED outside_hierarchy

\* specialist_response = specialist_fn(query, verbose=verbose); return {...}
SpecialistReturns ==
    /\ hierarchical.pc = "specialist"
    /\ \E specialist_response \in SpecialistResponses :
           hierarchical' = [hierarchical EXCEPT
                               !.calls = Append(@, hierarchical.specialist_fn),
                               !.returned = <<[routing    |-> hierarchical.routing[1],
                                               department |-> hierarchical.department[1],
                                               response   |-> specialist_response]>>,
                               !.pc = "done"]
    /\ UNCHANGED outside_hierarchy

\* the specialist's call of the LLM raises
SpecialistRaises ==
    /\ hierarchical.pc = "specialist"
    /\ hierarchical' = [hierarchical EXCEPT
                           !.calls = Append(@, hierarchical.specialist_fn),
                           !.exc = hierarchical.specialist_fn,
                           !.pc = "raised"]
    /\ UNCHANGED outside_hierarchy

HierarchicalNext ==
    \/ RunHierarchicalSystem
    \/ RouterAgentReturns
    \/ RouterAgentRaises
    \/ Dispatch
    \/ DispatchRaises
    \/ SpecialistReturns
    \/ SpecialistRaises

(* the router graph of 04_hierarchical.py *)

\* what the LLM may answer the router
RouterContents ==
    { "technical", "creative", "analytical", "general",
      " Technical\n", "CREATIVE", "legal", "technical or creative", "" }

ToLower ==
    [c \in {UpperCase[i] : i \in DOMAIN UpperCase} |->
        LowerCase[CHOOSE i \in DOMAIN UpperCase : UpperCase[i] = c]]

LowerChar(c) == IF c \in DOMAIN ToLower THEN ToLower[c] ELSE c

\* the first n characters of s in lower case
RECURSIVE LowerUpTo(_, _)
LowerUpTo(s, n) ==
    IF n = 0 THEN ""
    ELSE LowerUpTo(s, n - 1) \o LowerChar(SubSeq(s, n, n))

\* str.lower
Lower(s) == LowerUpTo(s, Len(s))

route_map ==
    [r \in {"technical", "creative", "analytical", "general"} |-> r]

\* route_map.get(route, "general")
route_to_specialist(s) ==
    IF s.route \in DOMAIN route_map THEN route_map[s.route] ELSE "general"

\* router_agent, then the conditional edge from router
router_agent ==
    /\ router.node = "START"
    /\ \E content \in RouterContents :
           LET routed == Merge(router.state, [route |-> Lower(Strip(content))])
           IN  router' = [router EXCEPT !.state = routed,
                                        !.calls = Append(@, "router"),
                                        !.node = route_to_specialist(routed)]
    /\ UNCHANGED outside_router_graph

\* llm.invoke raises in router_agent
router_agent_raises ==
    /\ router.node = "START"
    /\ router' = [router EXCEPT !.calls = Append(@, "router"), !.node = "raised"]
    /\ UNCHANGED outside_router_graph

\* a specialist node, then its edge to END
SpecialistNode(name) ==
    /\ router.node = name
    /\ \E content \in SpecialistResponses :
           router' = [router EXCEPT !.state = Merge(@, [response |-> content]),
                                    !.calls = Append(@, name),
                                    !.node = "END"]
    /\ UNCHANGED outside_router_graph

technical_agent == SpecialistNode("technical")
creative_agent == SpecialistNode("creative")
analytical_agent == SpecialistNode("analytical")
general_agent == SpecialistNode("general")

\* llm.invoke raises in a specialist node
specialist_raises ==
    /\ router.node \in DOMAIN route_map
    /\ router' = [router EXCEPT !.calls = Append(@, router.node), !.node = "raised"]
    /\ UNCHANGED outside_router_graph

RouterGraphNext ==
    \/ router_agent
    \/ router_agent_raises
    \/ technical_agent
    \/ creative_agent
    \/ analytical_agent
    \/ general_agent
    \/ specialist_raises

HierarchicalIdle == hierarchical = HierarchicalStart
RouterGraphIdle == router = RouterStart

RoutersNext ==
    \/ RouterGraphIdle /\ HierarchicalNext
    \/ HierarchicalIdle /\ RouterGraphNext

\* one run of either router
RoutersSpec == Init /\ [][RoutersNext]_vars

----------------------------------------------------------------------------
(* The fan-out/fan-in graph of 05_parallel.py: START leads to the four      *)
(* analysts, each analyst to the synthesizer, the synthesizer to END.       *)
(* LangGraph runs the nodes that START leads to in one step: each is handed *)
(* the state as it was when the step began, they run in any interleaving,   *)
(* and what they returned is applied with the reducers once all of them     *)
(* have returned; the node their edges lead to runs in the next step.  The  *)
(* order in which the returned lists are added is the order of return here, *)
(* which takes in every order.  An analyst that raises ends the run.        *)

Tag == [optimist  |-> "OPTIMIST",  pessimist |-> "PESSIMIST",
        realist   |-> "REALIST",   innovator |-> "INNOVATOR"]

\* what the LLM may answer an analyst or the synthesizer
Views == {"view", "other view"}

\* HumanMessage(content=f"Topic: {state['topic']}")
AnalystPrompt(s) == "Topic: " \o s.topic

\* return {"perspectives": [f"OPTIMIST: {response.content}"]}
AnalystUpdate(a, content) == [perspectives |-> <<Tag[a] \o ": " \o content>>]

\* Mutation of OperatorAdd: the update replaces the list
OperatorAddKeepsLast(old, new) == new

\* operator.add, the reducer of perspectives
OperatorAdd(old, new) == old \o new

\* the state after the updates of a step, applied one after the other
RECURSIVE ApplyUpdates(_, _)
ApplyUpdates(s, updates) ==
    IF updates = <<>> THEN s
    ELSE ApplyUpdates([s EXCEPT !.perspectives =
                                    OperatorAdd(@, Head(updates).perspectives)],
                      Tail(updates))

\* an analyst node is entered with the state of the step's start and sends
\* its prompt to the LLM
analyst_starts ==
    /\ parallel.step = "START"
    /\ \E a \in Analysts :
           /\ parallel.node[a] = "waiting"
           /\ parallel' = [parallel EXCEPT
                              !.node[a] = "running",
                              !.seen[a] = parallel.state.perspectives,
                              !.prompt[a] = AnalystPrompt(parallel.state)]
    /\ UNCHANGED outside_parallel_graph

\* the LLM answers and the analyst returns its update
analyst_returns ==
    /\ parallel.step = "START"
    /\ \E a \in Analysts, content \in Views :
           /\ parallel.node[a] = "running"
           /\ parallel' = [parallel EXCEPT
                              !.node[a] = "returned",
                              !.writes = Append(@, AnalystUpdate(a, content))]
    /\ UNCHANGED outside_parallel_graph

\* llm.invoke raises in an analyst
analyst_raises ==
    /\ parallel.step = "START"
    /\ \E a \in Analysts :
           /\ parallel.node[a] = "running"
           /\ parallel' = [parallel EXCEPT !.node[a] = "raised", !.step = "raised"]
    /\ UNCHANGED outside_parallel_graph

\* the end of the analysts' step: their updates are applied, and the edges
\* analyst -> synthesizer make the synthesizer the next step
FanIn ==
    /\ parallel.step = "START"
    /\ \A a \in Analysts : parallel.node[a] = "returned"
    /\ parallel' = [parallel EXCEPT
                       !.state = ApplyUpdates(@, parallel.writes),
                       !.step = "synthesizer"]
    /\ UNCHANGED outside_parallel_graph

\* synthesizer_agent reads state["perspectives"] and returns the synthesis;
\* then the edge synthesizer -> END
synthesizer_agent ==
    /\ parallel.step = "synthesizer"
    /\ \E content \in Views :
           parallel' = [parallel EXCEPT
                           !.read = Append(@, parallel.state.perspectives),
                           !.state.synthesis = content,
                           !.step = "END"]
    /\ UNCHANGED outside_parallel_graph

\* llm.invoke raises in the synthesizer
synthesizer_raises ==
    /\ parallel.step = "synthesizer"
    /\ parallel' = [parallel EXCEPT
                       !.read = Append(@, parallel.state.perspectives),
                       !.step = "raised"]
    /\ UNCHANGED outside_parallel_graph

ParallelNext ==
    \/ analyst_starts
    \/ analyst_returns
    \/ analyst_raises
    \/ FanIn
    \/ synthesizer_agent
    \/ synthesizer_raises

\* one invocation of the graph
ParallelSpec == Init /\ [][ParallelNext]_vars

----------------------------------------------------------------------------
(* Properties of run_swarm *)

open_threads == ctx.open_threads
investigated == ctx.investigated

\* position inside one pass of the loop, counted down to the end of the pass
PassRank ==
    CASE pc = "check"       -> 9
      [] pc = "Researcher"  -> 8
      [] pc = "mark_remove" -> 7
      [] pc = "mark_append" -> 6
      [] pc = "Analyst"     -> 5
      [] pc = "Critic"      -> 4
      [] pc = "clamp"       -> 3
      [] pc = "stuck"       -> 2
      [] pc = "loop"        -> 1
      [] OTHER              -> 0

\* a measure of the work left: the passes left, then the position in the pass
Rank ==
    IF pc \in {"done", "raised"} THEN 0
    ELSE IF pc = "synth" THEN 1
    ELSE 2 + 10 * (ctx.max_iterations - ctx.iteration) + PassRank

\* C1: run_swarm always leaves its loop.  While every call returns a step is
\* possible until the result is returned, every step lowers a measure that
\* is never negative (so there is no endless run), the loop is left after at
\* most max_iterations passes, and the result carries the findings
\* accumulated so far.
RunSwarmLeavesLoop ==
    /\ [](ctx.iteration <= ctx.max_iterations)
    /\ [](Rank >= 0)
    /\ [][Rank' < Rank]_vars
    /\ [](pc \notin {"done", "raised"} => ENABLED Returns)
    /\ [](pc = "done" =>
            /\ Cardinality(returned) = 1
            /\ \A r \in returned :
                  r.findings = ctx.findings /\ r.total_findings = Len(ctx.findings))

\* a forced stop at the safety net that still hands back findings
ForcedStopReturnsFindings ==
    /\ pc = "done"
    /\ reason = "Max iterations reached"
    /\ \E r \in returned : Len(r.findings) > 0 /\ r.findings = ctx.findings

\* C2: the round count reported in the result is never greater than
\* max_iterations.
IterationsWithinMax ==
    \A r \in returned : r.iterations <= ctx.max_iterations

\* a run that reports exactly max_iterations
ReportsMaxIterations ==
    \E r \in returned : r.iterations = ctx.max_iterations

MaxRoundsHolds == ctx.iteration >= ctx.max_iterations
ConfidenceHolds == ctx.confidence >= ConfidenceThreshold
OpenItemsHolds == ctx.open_threads = <<>> /\ Len(ctx.findings) > MinFindings

\* C3: the termination policy reports the first satisfied condition in the
\* order max rounds, confidence, open items, and says continue exactly when
\* none holds; max rounds wins over the other two.
TerminationPolicyOrder ==
    /\ should_terminate(ctx)[1] <=> (MaxRoundsHolds \/ ConfidenceHolds \/ OpenItemsHolds)
    /\ pc = "synth" =>
          /\ should_stop
          /\ MaxRoundsHolds \/ ConfidenceHolds \/ OpenItemsHolds
          /\ MaxRoundsHolds => reason = "Max iterations reached"
          /\ ~MaxRoundsHolds /\ ConfidenceHolds =>
                reason = "Confidence threshold reached (" \o Fmt2f(ctx.confidence) \o ")"
          /\ ~MaxRoundsHolds /\ ~ConfidenceHolds => reason = "All threads investigated"
    /\ pc = "Researcher" =>
          /\ ~should_stop
          /\ reason = ""
          /\ ~(MaxRoundsHolds \/ ConfidenceHolds \/ OpenItemsHolds)

\* the safety net and the confidence threshold hold together, the safety net is reported
MaxRoundsWinsOverConfidence ==
    /\ pc = "synth"
    /\ MaxRoundsHolds
    /\ ConfidenceHolds
    /\ reason = "Max iterations reached"

\* C4: no failure of the researcher, the analyst or the critic leaves run_swarm.
ParticipantFailureNeverEscapes ==
    exc \notin {"Researcher", "Analyst", "Critic"}

\* C5: after every update by an agent or by the controller the confidence is
\* not negative (the critic's own update ends with its clamp).
ConfidenceNeverNegative ==
    pc # "clamp" => ctx.confidence >= 0

\* C6: no item is both open and investigated, in every state, the ones
\* between the mutations of one agent step included.
OpenInvestigatedDisjoint ==
    Range(ctx.open_threads) \cap Range(ctx.investigated) = {}

\* between the researcher's remove and its append, with items on both lists
BetweenRemoveAndAppend ==
    /\ pc = "mark_append"
    /\ ctx.open_threads # <<>>
    /\ ctx.investigated # <<>>

\* what a participant may propose in one reply: one or two items, the same
\* item twice included, among them the task itself
Proposals == SeqsUpTo(ThreadTexts \cup {Task}, 2)

\* proposing p in a context in which an agent runs: every proposed item is open exactly
\* once afterwards, or not at all when it was investigated; the entries that
\* were open stay where they are; proposing p again adds nothing
DedupOnAdd ==
    pc \in {"Researcher", "Analyst", "Critic"} =>
        \A p \in Proposals :
            LET o == AddThreads(ctx.open_threads, ctx.investigated, p)
            IN  /\ \A x \in Range(p) :
                      Count(x, o) = IF x \in Range(ctx.investigated) THEN 0 ELSE 1
                /\ SubSeq(o, 1, Len(ctx.open_threads)) = ctx.open_threads
                /\ Range(o) = Range(ctx.open_threads) \cup (Range(p) \ Range(ctx.investigated))
                /\ AddThreads(o, ctx.investigated, p) = o

\* across a step: an item that becomes open was neither open nor
\* investigated, and is open once
DedupStep ==
    \A x \in Range(ctx'.open_threads) :
        /\ Count(x, ctx'.open_threads) = 1
        /\ x \notin Range(ctx.open_threads) => x \notin Range(ctx.investigated)

\* C7: adding an open item is idempotent: an item proposed twice in a round
\* is open exactly once, and an item already open or already investigated is
\* not added.
OpenItemAddIdempotent ==
    /\ []DedupOnAdd
    /\ [][DedupStep]_vars

\* the critic has just merged, after the researcher and the analyst of the
\* same round, and both proposed threads are open once
ThreeAgentsProposedInOneRound ==
    /\ pc = "clamp"
    /\ contributions = 2
    /\ Count("q", ctx.open_threads) = 1
    /\ Count(Verify("q"), ctx.open_threads) = 1

ReasonKeys == {"reason", "termination_reason", "terminationReason"}

ResultCarriesReason ==
    \A r \in returned : \E k \in DOMAIN r \cap ReasonKeys : r[k] = reason

\* the tag an agent puts in front of what it appends to the findings
AgentTag(name) == "[" \o Upper(name) \o "]"

IsPrefix(a, b) == Len(a) <= Len(b) /\ SubSeq(b, 1, Len(a)) = a

\* C14: findings is append-only: over every step of an agent or of the
\* controller the findings before the step are a prefix of the findings after
\* it, and every entry a step appends starts with the tag of the agent that is
\* running.
FindingsAppendOnly ==
    [][ /\ IsPrefix(ctx.findings, ctx'.findings)
        /\ \A i \in (Len(ctx.findings) + 1)..Len(ctx'.findings) :
               /\ pc \in {"Researcher", "Analyst", "Critic"}
               /\ StartsWith(ctx'.findings[i], AgentTag(pc)) ]_vars

\* C14 witness: the critic has just appended to findings that begin with an
\* entry of the researcher and hold one of the analyst
AllThreeTagsInFindings ==
    /\ pc = "clamp"
    /\ StartsWith(ctx.findings[1], "[RESEARCHER] ")
    /\ \E i \in DOMAIN ctx.findings : StartsWith(ctx.findings[i], "[ANALYST] Pattern: ")
    /\ StartsWith(ctx.findings[Len(ctx.findings)], "[CRITIC] Challenge: ")

\* C15 as stated: the context of a run is created with round index 0,
\* confidence 0 and all collections empty (findings, open items, investigated
\* items); the initial state is the only one with iteration 0.
ContextCreatedEmpty ==
    ctx.iteration = 0 =>
        /\ ctx.confidence = 0
        /\ ctx.findings = <<>>
        /\ ctx.open_threads = <<>>
        /\ ctx.investigated = <<>>

\* C15 as amended: the context of a run is created with round index 0,
\* confidence 0, findings and investigated items empty, and the open items
\* holding exactly one entry, the task itself.
ContextCreatedWithTaskOpen ==
    ctx.iteration = 0 =>
        /\ pc = "loop"
        /\ ctx.confidence = 0
        /\ ctx.findings = <<>>
        /\ ctx.investigated = <<>>
        /\ ctx.open_threads = <<ctx.task>>
        /\ ctx.agents_last_round = <<>>

\* C15 witness: the context as run_swarm has just created it
FreshContext ==
    /\ ctx.iteration = 0
    /\ ctx.task = Task
    /\ Len(ctx.open_threads) = 1
    /\ returned = {}

\* the positions of run_swarm that lie inside a round
InRound == {"Researcher", "mark_remove", "mark_append", "Analyst", "Critic", "clamp", "stuck"}

\* C19: within one round the agents run one at a time in the order
\* researcher, analyst, critic, each at most once, and each decides on the
\* context as the ones before it left it in this round: the analyst
\* contributes exactly when there are at least 2 findings now, the critic
\* exactly when there are at least 3 findings now.
AgentsInFixedOrder ==
    [][ /\ pc = "check" => pc' \in {"Researcher", "synth"}
        /\ pc = "Researcher" => pc' \in {"mark_remove", "Analyst", "raised"}
        /\ pc = "mark_remove" => pc' = "mark_append"
        /\ pc = "mark_append" => pc' = "Analyst"
        /\ pc = "Analyst" => pc' \in {"Critic", "raised"}
        /\ pc = "Critic" => pc' \in {"clamp", "stuck", "raised"}
        /\ pc = "clamp" => pc' = "stuck"
        /\ pc = "stuck" => pc' = "loop"
        /\ pc \in InRound => ctx'.iteration = ctx.iteration
        /\ pc = "Researcher" /\ pc' # "raised" =>
               (pc' = "mark_remove" <=> ctx.open_threads # <<>>)
        /\ pc = "Analyst" /\ pc' # "raised" =>
               /\ contributions' = contributions + 1 <=> Len(ctx.findings) >= 2
               /\ contributions' = contributions <=> Len(ctx.findings) < 2
               /\ ctx' # ctx => Len(ctx.findings) >= 2
        /\ pc = "Critic" /\ pc' # "raised" =>
               /\ pc' = "clamp" <=> Len(ctx.findings) >= 3
               /\ ctx' # ctx => Len(ctx.findings) >= 3
        /\ pc = "clamp" => contributions' = contributions + 1 ]_vars

\* C19 witness: round 1 began with no findings, and all three agents
\* contributed in it
AllContributedInRoundOne ==
    /\ ctx.iteration = 1
    /\ pc = "stuck"
    /\ contributions = 3
    /\ Len(ctx.findings) >= 3

\* the step in which an agent of this round reports contributed = True
ReportsContribution ==
    \/ pc = "mark_append"
    \/ pc = "Analyst" /\ pc' = "Critic" /\ Len(ctx.findings) >= 2
    \/ pc = "clamp"

\* C20: at the end of a round the controller adds 0.1 (10 hundredths) to the
\* confidence if and only if no agent reported a contribution in this round,
\* the contributions being counted from 0 at the start of the round; with at
\* least one contribution, and in its other steps, the controller leaves the
\* confidence as it is.
NudgeIffNoContribution ==
    [][ /\ pc = "check" /\ pc' = "Researcher" => contributions' = 0
        /\ pc \in InRound =>
               contributions' = contributions + (IF ReportsContribution THEN 1 ELSE 0)
        /\ pc = "stuck" /\ contributions = 0 =>
               ctx' = [ctx EXCEPT !.confidence = ctx.confidence + 10]
        /\ pc = "stuck" /\ contributions > 0 => ctx' = ctx
        /\ pc \in {"loop", "check", "synth"} => ctx'.confidence = ctx.confidence ]_vars

\* C20 witness: a round has ended in which no agent contributed, and the
\* controller has raised the confidence
NudgedAfterIdleRound ==
    /\ pc = "loop"
    /\ ctx.iteration >= 2
    /\ contributions = 0
    /\ ctx.confidence >= 10

\* the run has stopped, and the last round it ran had no contribution
StoppedAfterIdleRound == pc \in {"synth", "done"} /\ contributions = 0

\* C23: the fallback alone can end a run as converged.  Whenever a run stops
\* right after a round without contributions, it stops either at
\* max_iterations or with 'Confidence threshold reached', and then it was
\* that round's nudge of 0.1 that took the confidence over the threshold;
\* the witness is such a run, in which no finding was ever added.
IdleRoundStopsByNudge ==
    StoppedAfterIdleRound =>
        \/ /\ reason = "Max iterations reached"
           /\ ctx.iteration = ctx.max_iterations
        \/ /\ reason = "Confidence threshold reached (" \o Fmt2f(ctx.confidence) \o ")"
           /\ ctx.iteration < ctx.max_iterations
           /\ ctx.confidence >= ConfidenceThreshold
           /\ ctx.confidence - 10 < ConfidenceThreshold

\* C23 witness: a run returned as converged at 0.90 without a single finding:
\* the researcher added 0.3 in round 1, and rounds 2 to 7 had no contribution
ConvergedWithoutEvidence ==
    /\ pc = "done"
    /\ reason = "Confidence threshold reached (0.90)"
    /\ contributions = 0
    /\ ctx.findings = <<>>
    /\ ctx.investigated = <<Task>>
    /\ ctx.iteration = 8
    /\ \E r \in returned : r.total_findings = 0 /\ r.final_confidence = 90

\* the number of rounds in which the agents have run (or are running): every
\* counted pass but the one that is at its check, or that stopped
RoundsRun ==
    IF pc \in {"check", "synth", "done"} \/ exc = "Synthesizer"
    THEN ctx.iteration - 1
    ELSE ctx.iteration

\* C29: the counter is incremented before the check, so the agents run in
\* at least 1 and at most max_iterations - 1 = 9 rounds: RoundsRun is 0 at
\* the start and grows by 1 exactly when a check lets the agents run, the
\* check of the first pass never stops, and a returned 'iterations' counts
\* the stopping pass, being the number of rounds run plus 1.
RoundsAreIterationsMinusOne ==
    /\ RoundsRun = 0
    /\ [][ /\ pc = "check" /\ pc' = "Researcher" => RoundsRun' = RoundsRun + 1
           /\ ~(pc = "check" /\ pc' = "Researcher") => RoundsRun' = RoundsRun
           /\ pc = "check" /\ ctx.iteration = 1 => pc' = "Researcher" ]_vars
    /\ [](\A r \in returned :
              /\ r.iterations = RoundsRun + 1
              /\ RoundsRun >= 1
              /\ RoundsRun <= 9)

\* C29 witness: a run has returned after the agents ran in nine rounds
NineRoundsRan ==
    /\ pc = "done"
    /\ RoundsRun = 9
    /\ \E r \in returned : r.iterations = 10

\* no agent has anything to work on: no open thread, fewer than 2 findings
NothingToDo == ctx.open_threads = <<>> /\ Len(ctx.findings) < 2

\* the run is between rounds, or in a round without a contribution so far,
\* with nothing to work on
Stalled ==
    /\ NothingToDo
    /\ \/ pc \in {"loop", "check"}
       \/ pc \in {"Researcher", "Analyst", "Critic", "stuck"} /\ contributions = 0

\* C30: a stall is absorbing.  A round ends without a contribution only
\* when there is no open thread and fewer than 2 findings; from then on no
\* step changes anything of the context but the counter and the confidence,
\* no agent contributes or even calls the LLM, and the run leaves the stall
\* only by stopping, with a reason other than 'All threads investigated'.
StallIsAbsorbing ==
    /\ [](pc = "stuck" /\ contributions = 0 => NothingToDo)
    /\ [][ Stalled =>
               /\ Stalled' \/ pc' = "synth"
               /\ ctx' = [ctx EXCEPT !.iteration = ctx'.iteration,
                                     !.confidence = ctx'.confidence]
               /\ ctx'.confidence # ctx.confidence =>
                      pc = "stuck" /\ ctx'.confidence = ctx.confidence + 10
               /\ pc' = "synth" =>
                      \/ reason' = "Max iterations reached"
                      \/ reason' = "Confidence threshold reached ("
                                       \o Fmt2f(ctx.confidence) \o ")" ]_vars

\* C30 witness: the third round ends without a contribution, one finding
\* being all there is
StalledWithOneFinding ==
    /\ pc = "stuck"
    /\ contributions = 0
    /\ ctx.iteration = 3
    /\ Len(ctx.findings) = 1

-----------------------------------------------------------------------------
(* The thread lists of run_swarm *)

NoItemTwice(s) == \A i, j \in DOMAIN s : s[i] = s[j] => i = j

\* C31: in every reachable state of a swarm run open_threads contains no
\* item twice and investigated contains no item twice, so that removing the
\* investigated thread from open_threads removes its only occurrence.
NoThreadTwice ==
    /\ NoItemTwice(ctx.open_threads)
    /\ NoItemTwice(ctx.investigated)
    /\ pc = "mark_remove" => Count(thread, ctx.open_threads) = 1
    /\ pc = "mark_append" => Count(thread, ctx.open_threads) = 0

\* C31 witness: the third and last open thread is about to be removed, the
\* two before it investigated
RemovingThirdThread ==
    /\ pc = "mark_remove"
    /\ Len(ctx.investigated) = 2
    /\ thread \notin {Task} \cup Range(ctx.investigated)
    /\ Len(ctx.open_threads) = 1

\* what a step of the researcher between its pick and its return does
ResearcherMovesHead ==
    /\ pc = "mark_remove" =>
           /\ thread = Head(ctx.open_threads)
           /\ ctx'.open_threads = Tail(ctx.open_threads)
           /\ ctx'.investigated = ctx.investigated
    /\ pc = "mark_append" =>
           /\ ctx'.investigated = Append(ctx.investigated, thread)
           /\ ctx'.open_threads = ctx.open_threads
    /\ pc \notin {"mark_remove", "mark_append"} =>
           /\ ctx'.investigated = ctx.investigated
           /\ IsPrefix(ctx.open_threads, ctx'.open_threads)

\* C32: the researcher investigates open threads in first-in-first-out order,
\* exactly one per round: each contributing researcher step moves the item
\* at the head of open_threads (the original task in round 1) to the end of
\* investigated, so investigated grows by exactly one per such step and its
\* length never exceeds the number of rounds run.
ResearcherIsFifo ==
    /\ [](Len(ctx.investigated) <= RoundsRun)
    /\ [](pc = "mark_remove" /\ ctx.iteration = 1 => thread = Task)
    /\ [][ResearcherMovesHead]_vars

\* C32 witness: three threads have been investigated in the order in which
\* they were opened
ThreeInvestigatedInOrder ==
    /\ pc = "Analyst"
    /\ ctx.iteration = 3
    /\ ctx.investigated = <<Task, "q", Verify("q")>>

\* an agent is called and its precondition is not met
PreconditionNotMet ==
    \/ pc = "Researcher" /\ ctx.open_threads = <<>>
    \/ pc = "Analyst" /\ Len(ctx.findings) < 2
    \/ pc = "Critic" /\ Len(ctx.findings) < 3

\* C33: a swarm agent whose precondition is not met (researcher with no open
\* thread, analyst with fewer than 2 findings, critic with fewer than 3)
\* reports contributed = false and leaves the whole shared context
\* unchanged: findings, open_threads, investigated, confidence and iteration
\* are the same after the call as before.
SkipLeavesContextUnchanged ==
    [][PreconditionNotMet => /\ ctx' = ctx
                             /\ contributions' = contributions
                             /\ exc' = exc
                             /\ pc' \in {"Analyst", "Critic", "stuck"}]_vars

\* C33 witness: the researcher has found no open thread and returned at once;
\* the findings are too few for the analyst as well
ResearcherSkipped ==
    /\ pc = "Analyst"
    /\ contributions = 0
    /\ ctx.open_threads = <<>>
    /\ ctx.iteration >= 2
    /\ Len(ctx.findings) < 2

-----------------------------------------------------------------------------
(* Properties of the solver/critic graph *)

\* the condition under which the conditional edge leads to END
GraphDone == state.is_complete \/ state.iteration >= MAX_ITERATIONS

\* C12: after every critic step the run ends if and only if is_complete is
\* true or iteration >= MAX_ITERATIONS, and otherwise the solver runs next;
\* END is entered only by that edge, and a solver step is always followed by
\* the critic (or by the solver's exception), never by END.
EndOnlyAfterCritic ==
    [][ /\ node = "critic" => node' \in {"route", "raised"}
        /\ node = "route" =>
               /\ state' = state
               /\ GraphDone => node' = "END"
               /\ ~GraphDone => node' = "solver"
        /\ node' = "END" => node = "route"
        /\ node = "solver" => node' \in {"critic", "raised"} ]_vars

\* C12 witness: the run has ended without approval, on the bound alone
EndsUnapprovedAtMaxIterations ==
    /\ node = "END"
    /\ ~state.is_complete
    /\ state.iteration = MAX_ITERATIONS

-----------------------------------------------------------------------------
(* Properties of both programs *)

\* C13: the round index starts at 0 and only ever grows by exactly 1: in
\* run_swarm it is changed by the loop head alone, once per pass, and by no
\* agent; in the solver/critic graph it is changed by the solver alone, by +1
\* per solver step.
RoundIndexCountsRounds ==
    /\ ctx.iteration = 0
    /\ state.iteration = 0
    /\ [][ /\ ctx'.iteration # ctx.iteration =>
                  pc = "loop" /\ ctx'.iteration = ctx.iteration + 1
           /\ pc = "loop" /\ pc' # "loop" => ctx'.iteration = ctx.iteration + 1
           /\ state'.iteration # state.iteration =>
                  node = "solver" /\ state'.iteration = state.iteration + 1
           /\ node = "solver" /\ node' = "critic" =>
                  state'.iteration = state.iteration + 1 ]_vars

\* C13 witness: the solver has run twice and is about to run a third time
SolverCountedTwice ==
    /\ node = "solver"
    /\ state.iteration = 2
    /\ Len(state.history) = 4

-----------------------------------------------------------------------------
(* Properties of the solver/critic graph: approval *)

\* C18: when the critic approves, in round k with 1 <= k <= MAX_ITERATIONS
\* after k solver and k critic steps, the only step that follows is the edge
\* to END, which leaves iteration = k and is_complete = TRUE as they are;
\* the solver never runs on an approved state and nothing runs after END.
ApprovalEndsRun ==
    /\ [](state.is_complete =>
              /\ node \in {"route", "END"}
              /\ state.iteration \in 1..MAX_ITERATIONS
              /\ Len(state.history) = 2 * state.iteration)
    /\ [][ (state.is_complete \/ node = "END") =>
               /\ node = "route"
               /\ node' = "END"
               /\ state' = state ]_vars

\* C18 witness: the critic approved in round 2, in a verdict that needs
\* strip() and upper() to be recognised, and the run has ended
ApprovedInRoundTwo ==
    /\ node = "END"
    /\ state.is_complete
    /\ state.iteration = 2
    /\ state.feedback = " approved\n"

-----------------------------------------------------------------------------
(* Properties of the solver/critic graph: the solver's two branches *)

\* the history entries the two nodes write in round k
SolutionEntry(k, text) == "ITERATION " \o ToString(k) \o " SOLUTION:\n" \o text
FeedbackEntry(k, text) == "ITERATION " \o ToString(k) \o " FEEDBACK:\n" \o text

\* C21: the solver asks for an initial solution exactly when iteration = 0,
\* which is exactly its first call in the run (nothing in the history); every
\* later call asks for an improvement, and its prompt carries the solution the
\* previous solver step wrote and the feedback the critic step just before
\* it wrote.
SolverBranchesOnFirstCall ==
    [][ node = "solver" /\ node' = "critic" =>
            /\ prompt'.branch = "initial" <=> state.iteration = 0
            /\ prompt'.branch = "initial" <=> state.history = <<>>
            /\ prompt'.branch = "improve" <=> state.iteration > 0
            /\ prompt'.branch = "improve" =>
                   LET n == Len(state.history)
                   IN  /\ n >= 2
                       /\ state.history[n - 1] =
                              SolutionEntry(state.iteration, prompt'.solution)
                       /\ state.history[n] =
                              FeedbackEntry(state.iteration, prompt'.feedback) ]_vars

\* C21 witness: the solver's third call asked for an improvement of "s2"
\* under feedback that did not approve it
ThirdCallImproves ==
    /\ node = "critic"
    /\ state.iteration = 3
    /\ prompt.branch = "improve"
    /\ prompt.solution = "s2"
    /\ prompt.feedback = "NOT APPROVED"

-----------------------------------------------------------------------------
(* Properties of the solver/critic graph: termination *)

\* the number of solver steps taken so far: the solution entries of the history
SolverRuns ==
    Cardinality({i \in DOMAIN state.history :
                    \E k \in 1..(MAX_ITERATIONS + 1), text \in Solutions :
                        state.history[i] = SolutionEntry(k, text)})

\* C22: the solver/critic cycle does not loop forever: every run comes to an
\* end, at END whenever no call of the LLM raises; the solver runs at most
\* MAX_ITERATIONS times, and at END it has run at least once and iteration,
\* the number of its runs, lies between 1 and MAX_ITERATIONS, whatever the
\* verdicts were.
GraphReachesEnd ==
    /\ <>(node \in {"END", "raised"})
    /\ [](node # "raised") => <>(node = "END")
    /\ [](SolverRuns = state.iteration /\ state.iteration <= MAX_ITERATIONS)
    /\ [](node = "END" => state.iteration \in 1..MAX_ITERATIONS)

\* C22 witness: the run has ended after three solver steps, the third one
\* approved
EndsAfterThreeSolverSteps ==
    /\ node = "END"
    /\ SolverRuns = 3
    /\ state.is_complete

-----------------------------------------------------------------------------
(* Properties of the tool loops *)

\* what holds of a loop with the bound max and the fixed string gave_up in
\* every state: iteration counts the calls of the LLM and stays within max;
\* every response kept was a request for tools, so a returned answer is the
\* first response without tool calls; the fixed string is returned exactly
\* when max responses were requests
LoopWithinBound(loop, max, gave_up) ==
    /\ loop.iteration <= max
    /\ \A i \in DOMAIN loop.messages :
           loop.messages[i].role = "assistant" => loop.messages[i].tool_calls # <<>>
    /\ loop.pc \in {"while", "for"} => Requests(loop) = loop.iteration
    /\ loop.pc = "done" =>
           /\ Len(loop.returned) = 1
           /\ loop.returned[1] = gave_up <=> Requests(loop) = max
           /\ loop.returned[1] # gave_up => Requests(loop) = loop.iteration - 1

\* what holds of every step from before to after: the counter grows by one
\* exactly in a call of the LLM, made at the head of the loop, and nothing
\* follows a return
LoopStepsWithinBound(before, after) ==
    /\ after.iteration # before.iteration =>
           before.pc = "while" /\ after.iteration = before.iteration + 1
    /\ before.pc = "while" /\ after.pc \in {"for", "raised"}  =>
           after.iteration = before.iteration + 1
    /\ before.pc \in {"done", "raised"} => after = before

\* C24: the tool loops are bounded: run_agent makes at most 10 calls of the
\* LLM and run_research_agent at most 8; each returns the content of the
\* first response without tool calls and calls no more; each returns its
\* fixed string exactly when all the responses it was allowed requested tools.
ToolLoopsBounded ==
    /\ [](LoopWithinBound(agent, 10, AgentGaveUp))
    /\ [](LoopWithinBound(research_agent, 8, ResearchIncomplete))
    /\ [][ /\ LoopStepsWithinBound(agent, agent')
           /\ LoopStepsWithinBound(research_agent, research_agent') ]_vars

\* C24 witness: run_agent has given up after ten requests for tools
AgentGaveUpAfterTen ==
    /\ agent.pc = "done"
    /\ agent.returned = <<AgentGaveUp>>
    /\ agent.iteration = 10
    /\ Requests(agent) = 10

\* C28: in run_multi_agent the writer agent runs exactly once, after the
\* research agent has returned, and receives exactly the string the research
\* agent returned, 'Research incomplete - max iterations reached.' included;
\* the result carries that string and the writer's content.
WriterRunsOnceOnResearch ==
    /\ Len(multi.writer_calls) <= 1
    /\ multi.writer_calls # <<>> =>
           /\ research_agent.pc = "done"
           /\ multi.writer_calls = research_agent.returned
    /\ multi.pc = "writer" => multi.writer_calls = <<>> /\ research_agent.pc = "done"
    /\ multi.pc \in {"return", "done"} => Len(multi.writer_calls) = 1
    /\ multi.pc = "done" =>
           /\ Len(multi.returned) = 1
           /\ multi.returned[1].research = research_agent.returned[1]
           /\ multi.returned[1].final_content \in Contents

\* C28 witness: the writer has written on the research agent's fixed string
WriterWroteOnIncompleteResearch ==
    /\ multi.pc = "done"
    /\ research_agent.iteration = 8
    /\ multi.writer_calls = <<ResearchIncomplete>>
    /\ multi.returned[1].research = ResearchIncomplete

-----------------------------------------------------------------------------
(* Properties of run_agent and the ReAct graph on the same responses *)

\* the tool calls a program has handled, in order: the ids of its tool messages
ToolExecutions(messages) ==
    LET handled == SelectSeq(messages, LAMBDA m : m.role = "tool")
    IN  [i \in 1..Len(handled) |-> handled[i].tool_call_id]

\* the graph has done what run_agent did, as far as the graph has come: no
\* more calls of the LLM, the same tool calls handled in the same order, and
\* at END the same number of calls and the response run_agent returned
GraphFollowsRunAgent ==
    /\ react.calls <= agent.iteration
    /\ IsPrefix(ToolExecutions(react.messages), ToolExecutions(agent.messages))
    /\ react.node = "END" =>
           /\ react.calls = agent.iteration
           /\ ToolExecutions(react.messages) = ToolExecutions(agent.messages)
           /\ react.messages[Len(react.messages)].content = agent.returned[1]

\* C25: the ReAct graph of 02_tools and the run_agent loop are equivalent:
\* fed the same sequence of LLM responses they perform the same sequence of
\* LLM calls and tool executions and end at the same response, for every
\* such sequence.
ReactGraphMatchesRunAgent ==
    agent.pc = "done" => GraphFollowsRunAgent

\* the same, for the sequences on which run_agent returned a response of the
\* LLM, that is, one of whose first ten responses has no tool calls
ReactGraphMatchesAnsweredRunAgent ==
    agent.pc = "done" /\ agent.returned # <<AgentGaveUp>> => GraphFollowsRunAgent

\* the graph has ended where run_agent ended, after two rounds of tools
GraphEndedWithRunAgent ==
    /\ agent.pc = "done"
    /\ agent.iteration = 3
    /\ react.node = "END"
    /\ react.calls = 3

\* the graph calls the LLM an eleventh time where run_agent gave up after ten
GraphCallsEleventhTime ==
    /\ agent.pc = "done"
    /\ agent.returned = <<AgentGaveUp>>
    /\ react.calls = 11

-----------------------------------------------------------------------------
(* Properties of the routers *)

\* the specialist the claim names for what run_router_agent returned
NamedSpecialist(routing) ==
    IF routing.department = <<>> THEN "run_general_agent"
    ELSE LET d == routing.department[1]
         IN  CASE d = JsonString("BILLING")   -> "run_billing_agent"
               [] d = JsonString("TECHNICAL") -> "run_technical_agent"
               [] d = JsonString("SALES")     -> "run_sales_agent"
               [] OTHER                       -> "run_general_agent"

\* the node the claim names for the route router_agent returned
NamedNode(route) ==
    IF route \in {"technical", "creative", "analytical"} THEN route ELSE "general"

\* run_hierarchical_system is over and its router had returned
HierarchicalRouted ==
    hierarchical.pc \in {"done", "raised"} /\ hierarchical.routing # <<>>

\* the router graph is over and its router had returned
GraphRouted ==
    router.node = "END" \/ (router.node = "raised" /\ Len(router.calls) > 1)

\* in run_hierarchical_system the router is called first and once, then at
\* most one specialist; once the router has returned, the run ends with
\* exactly one call of the specialist named by the department
HierarchicalDispatch ==
    /\ Len(hierarchical.calls) <= 2
    /\ \A i \in DOMAIN hierarchical.calls :
           hierarchical.calls[i] = "run_router_agent" <=> i = 1
    /\ HierarchicalRouted =>
           /\ Len(hierarchical.calls) = 2
           /\ hierarchical.calls[2] = NamedSpecialist(hierarchical.routing[1])

\* the same of the router graph and its four specialist nodes
GraphDispatch ==
    /\ Len(router.calls) <= 2
    /\ \A i \in DOMAIN router.calls : router.calls[i] = "router" <=> i = 1
    /\ router.node \in DOMAIN route_map =>
           router.calls = <<"router">> /\ router.node = NamedNode(router.state.route)
    /\ GraphRouted =>
           /\ Len(router.calls) = 2
           /\ router.calls[2] = NamedNode(router.state.route)

\* C26: router dispatch is total and exclusive: for every value the router
\* returns exactly one specialist runs, exactly once and after the router;
\* it is the specialist named by the value when the value is a known name
\* and the general specialist for every other value; in
\* run_hierarchical_system and in the LangGraph router alike.
RouterDispatchTotalAndExclusive ==
    HierarchicalDispatch /\ GraphDispatch

\* the same of run_hierarchical_system for the dicts whose "department" is
\* there and is not a list
HierarchicalDispatchOnKeys ==
    /\ Len(hierarchical.calls) <= 2
    /\ \A i \in DOMAIN hierarchical.calls :
           hierarchical.calls[i] = "run_router_agent" <=> i = 1
    /\ HierarchicalRouted /\ Dispatchable(hierarchical.routing[1]) =>
           /\ Len(hierarchical.calls) = 2
           /\ hierarchical.calls[2] = NamedSpecialist(hierarchical.routing[1])

\* run_hierarchical_system has raised on a department that is a list, and no
\* specialist has run
DispatchRaisedOnList ==
    /\ hierarchical.pc = "raised"
    /\ hierarchical.routing # <<>>
    /\ hierarchical.department = <<JsonArray("BILLING")>>
    /\ hierarchical.calls = <<"run_router_agent">>

\* an unknown department has gone to the general specialist, and an unknown
\* route to the general node
UnknownWentToGeneral ==
    \/ /\ hierarchical.pc = "done"
       /\ hierarchical.department = <<JsonString("LEGAL")>>
       /\ hierarchical.calls = <<"run_router_agent", "run_general_agent">>
    \/ /\ router.node = "END"
       /\ router.state.route = "legal"
       /\ router.calls = <<"router", "general">>

-----------------------------------------------------------------------------
(* Properties of the fan-out/fan-in graph *)

\* the entries of a list of perspectives that came from analyst a
EntriesOf(perspectives, a) ==
    {i \in DOMAIN perspectives : StartsWith(perspectives[i], Tag[a] \o ": ")}

\* the entries of the list are among what the analysts returned
Returned(perspectives) ==
    \A i \in DOMAIN perspectives :
        \E j \in DOMAIN parallel.writes : parallel.writes[j].perspectives = <<perspectives[i]>>

\* C27: in the fan-out/fan-in graph, for every interleaving of the four
\* analysts the synthesizer runs exactly once and only after all four have
\* finished; the perspectives it reads are exactly four, one from each
\* analyst, none lost or duplicated; each analyst reads only the topic and
\* never another analyst's output.
SynthesizerReadsAllFour ==
    /\ Len(parallel.read) <= 1
    /\ parallel.step = "END" => Len(parallel.read) = 1
    /\ parallel.read # <<>> =>
           /\ \A a \in Analysts : parallel.node[a] = "returned"
           /\ Len(parallel.read[1]) = 4
           /\ \A a \in Analysts : Cardinality(EntriesOf(parallel.read[1], a)) = 1
           /\ Returned(parallel.read[1])
    /\ \A a \in Analysts :
           parallel.node[a] # "waiting" =>
               /\ parallel.prompt[a] = "Topic: " \o Topic
               /\ parallel.seen[a] = <<>>

\* C27 witness: the graph has ended after the innovator returned first and
\* the optimist last
EndedAfterInnovatorFirst ==
    /\ parallel.step = "END"
    /\ parallel.read = <<parallel.state.perspectives>>
    /\ StartsWith(parallel.state.perspectives[1], "INNOVATOR: ")
    /\ StartsWith(parallel.state.perspectives[4], "OPTIMIST: ")

-----------------------------------------------------------------------------
(* Properties of the solver/critic graph: the history *)

\* the number of critic steps taken so far: the feedback entries of the history
CriticRuns ==
    Cardinality({i \in DOMAIN state.history :
                    \E k \in 1..(MAX_ITERATIONS + 1), text \in Feedbacks :
                        state.history[i] = FeedbackEntry(k, text)})

\* the history holds, for every iteration so far, the solver's entry and then
\* the critic's, the last of them being the solution and feedback of the state
HistoryInPairs ==
    /\ node \in {"START", "solver", "route", "END"} =>
           Len(state.history) = 2 * state.iteration
    /\ node = "critic" => Len(state.history) = 2 * state.iteration - 1
    /\ \A k \in 1..state.iteration :
           /\ 2 * k - 1 <= Len(state.history) =>
                  \E text \in Solutions :
                      state.history[2 * k - 1] = SolutionEntry(k, text)
           /\ 2 * k <= Len(state.history) =>
                  \E text \in Feedbacks :
                      state.history[2 * k] = FeedbackEntry(k, text)
    /\ node \in {"route", "END"} =>
           /\ state.iteration >= 1
           /\ state.history[2 * state.iteration - 1] =
                  SolutionEntry(state.iteration, state.solution)
           /\ state.history[2 * state.iteration] =
                  FeedbackEntry(state.iteration, state.feedback)
    /\ node = "END" => CriticRuns = SolverRuns /\ SolverRuns = state.iteration

\* C34: in the solver/critic graph the history is append-only and alternates
\* solver and critic entries: after every critic step its length is
\* 2 x iteration, entry 2k-1 is the solution of iteration k and entry 2k the
\* feedback of iteration k, and the critic has run exactly as many times as
\* the solver when the graph ends.
HistoryAlternates ==
    /\ []HistoryInPairs
    /\ [][IsPrefix(state.history, state'.history)]_vars

\* C34 witness: the graph has ended after three rounds, six entries written
EndedWithSixEntries ==
    /\ node = "END"
    /\ state.iteration = 3
    /\ Len(state.history) = 6
    /\ state.history[6] = FeedbackEntry(3, state.feedback)

-----------------------------------------------------------------------------
(* Properties of run_agent: the message list *)

\* the messages open with the system and the user message, and what follows
\* is a run of blocks: an assistant message with tool calls, then one tool
\* message for each of its calls, in the order of the calls and with the
\* call's id
WellFormed(messages) ==
    /\ Len(messages) >= 2
    /\ messages[1] = [role |-> "system", content |-> "SYSTEM_PROMPT"]
    /\ messages[2] = [role |-> "user", content |-> UserMessage]
    /\ Len(messages) >= 3 => messages[3].role = "assistant"
    /\ \A i \in 3..Len(messages) :
           /\ messages[i].role \in {"assistant", "tool"}
           /\ messages[i].role = "assistant" =>
                  LET calls == messages[i].tool_calls
                      next  == i + Len(calls) + 1
                  IN  /\ calls # <<>>
                      /\ next - 1 <= Len(messages)
                      /\ \A j \in 1..Len(calls) :
                             /\ messages[i + j].role = "tool"
                             /\ messages[i + j].tool_call_id = calls[j].id
                      /\ next <= Len(messages) => messages[next].role = "assistant"

\* C35: the message list of run_agent is append-only and well-formed before
\* every LLM call: it starts with the system and the user message, and every
\* assistant message that has tool calls is followed directly by exactly one
\* tool message per tool call, in call order and with the matching
\* tool_call_id, before the next LLM call is made.
MessagesWellFormed ==
    /\ [](agent.pc \in {"while", "done"} => WellFormed(agent.messages))
    /\ [][IsPrefix(agent.messages, agent'.messages)]_vars

\* C35 witness: the LLM is about to be called after a request for two tools,
\* one of them unknown to run_agent, and a request for one
CallAfterTwoToolRounds ==
    /\ agent.pc = "while"
    /\ agent.iteration = 2
    /\ Len(agent.messages) = 7
    /\ Len(agent.messages[3].tool_calls) = 2
    /\ agent.messages[5].content = "Error: Unknown tool 'get_weather'"

====
